---- MODULE Spec2Model ----
(***************************************************************************)
(* Initiative tracker (src/components/ui/alert-dialog.tsx, lines 428-897): *)
(* the session state of the InitiativeTracker component, its load-time     *)
(* migration and repair, the turn-ending handlers markDone / markDead /    *)
(* revive with the findNextActive scan, and the reset dialog.              *)
(*                                                                         *)
(* A cell key `${row}-${col}` is modelled as the pair <<row, col>>: both   *)
(* are injective on non-negative indices.  A stored key that names no cell *)
(* of the grid is a pair whose row or column lies outside the grid.        *)
(* A raw JSON value is a record [type, text] so that the typeof test of    *)
(* isPhaseCellState is something the model computes.                       *)
(***************************************************************************)
EXTENDS Integers, Sequences, FiniteSets, TLC

VARIABLES
    state,            \* useState<State>: [participants, phases, values]
    storage,          \* sessionStorage entry under STORAGE_KEY
    mounted,          \* TRUE once the mount effect (line 604) has run
    resetDialogOpen,  \* useState(false), line 717
    lastOp,           \* observer: the handler that ran last and its target
    fnArg,            \* pure-function harness: the argument drawn
    fnRes             \* pure-function harness: the result computed

vars == <<state, storage, mounted, resetDialogOpen, lastOp, fnArg, fnRes>>

(***************************************************************************)
(* Bounds of the model.                                                    *)
(***************************************************************************)
MaxCells == 5             \* the grid grows while rows * columns stays within this
MaxRenameRow == 0         \* rows 0 .. MaxRenameRow have their name edited

Names == {"A"}                                  \* names typed into a row
StoredParticipantLists == {<<>>, <<"">>, <<"A", "B">>}
StoredPhaseLists == {<<>>, <<"Round 1", "Round 2">>}
StoredKeys == {<<0, 0>>, <<1, 0>>, <<0, 1>>}

(***************************************************************************)
(* Cell states and keys.                                                   *)
(***************************************************************************)
PHASE_CELL_STATES == {"waiting", "active", "done", "dead", "revived"}

getCellKey(rowIndex, colIndex) == <<rowIndex, colIndex>>

JsonString(s) == [type |-> "string", text |-> s]

RawValues ==
    {JsonString(s) : s \in PHASE_CELL_STATES \cup {"17"}}
        \cup {[type |-> "number", text |-> "3"]}

isPhaseCellState(v) == v.type = "string" /\ v.text \in PHASE_CELL_STATES

\* `${"Phase"} ${n}` of lines 654, 675, 696
PhaseLabel(n) ==
    CASE n = 1 -> "Phase 1"
      [] n = 2 -> "Phase 2"
      [] n = 3 -> "Phase 3"
      [] n = 4 -> "Phase 4"
      [] n = 5 -> "Phase 5"
      [] n = 6 -> "Phase 6"
      [] OTHER -> "Phase n"

\* the empty values object {}
EmptyValues == [k \in {} |-> "waiting"]

\* the initial useState value and the fallback of loadStateFromStorage
FreshState == [participants |-> <<>>, phases |-> <<"Phase 1">>, values |-> EmptyValues]

\* state.values[key] ?? "waiting"
getCellState(s, rowIndex, colIndex) ==
    IF getCellKey(rowIndex, colIndex) \in DOMAIN s.values
    THEN s.values[getCellKey(rowIndex, colIndex)]
    ELSE "waiting"

\* next.values[key] = v on a copy of the values object
SetValue(values, key, v) ==
    [k \in (DOMAIN values) \cup {key} |-> IF k = key THEN v ELSE values[k]]

ActiveKeys(s) == {k \in DOMAIN s.values : s.values[k] = "active"}

(***************************************************************************)
(* Load-time migration and repair.                                         *)
(***************************************************************************)
\* variant: the enumeration without "revived"
migrateValuesNoRevived(raw) ==
    [k \in DOMAIN raw |->
        IF isPhaseCellState(raw[k]) /\ raw[k].text # "revived"
        THEN raw[k].text ELSE "waiting"]

\* variant: every stored value is kept, whatever it is
migrateValuesKeepsText(raw) == [k \in DOMAIN raw |-> raw[k].text]

migrateValues(raw) ==
    [k \in DOMAIN raw |-> IF isPhaseCellState(raw[k]) THEN raw[k].text ELSE "waiting"]

\* variant: demotes but never promotes cell (0,0)
ensureSingleActiveNoPromote(s) ==
    IF Cardinality(ActiveKeys(s)) = 1
    THEN s
    ELSE [s EXCEPT !.values = [k \in DOMAIN s.values |->
                                  IF s.values[k] = "active" THEN "done" ELSE s.values[k]]]

\* variant: promotes cell (0,0) without testing phases.length
ensureSingleActiveIgnoresPhases(s) ==
    LET demoted == [k \in DOMAIN s.values |->
                       IF s.values[k] = "active" THEN "done" ELSE s.values[k]]
    IN  IF Cardinality(ActiveKeys(s)) = 1
        THEN s
        ELSE IF Len(s.participants) > 0
             THEN [s EXCEPT !.values = SetValue(demoted, getCellKey(0, 0), "active")]
             ELSE [s EXCEPT !.values = demoted]

ensureSingleActive(s) ==
    LET activeKeys == {k \in DOMAIN s.values : s.values[k] = "active"}
        demoted == [k \in DOMAIN s.values |->
                       IF k \in activeKeys THEN "done" ELSE s.values[k]]
    IN  IF Cardinality(activeKeys) = 1
        THEN s
        ELSE IF Len(s.participants) > 0 /\ Len(s.phases) > 0
                  /\ Cardinality(activeKeys) # 1
             THEN [s EXCEPT !.values = SetValue(demoted, getCellKey(0, 0), "active")]
             ELSE [s EXCEPT !.values = demoted]

\* the storage entry: absent, unparsable text, or a JSON object
AbsentStorage ==
    [kind |-> "absent", participants |-> <<>>, phases |-> <<>>, values |-> EmptyValues]

MalformedStorage ==
    [kind |-> "malformed", participants |-> <<>>, phases |-> <<>>, values |-> EmptyValues]

\* variant: the fallback session has no phase
loadStateFromStorageNoPhase(st) ==
    IF st.kind # "json"
    THEN [participants |-> <<>>, phases |-> <<>>, values |-> EmptyValues]
    ELSE ensureSingleActive(
             [participants |-> st.participants,
              phases |-> IF Len(st.phases) > 0 THEN st.phases ELSE <<"Phase 1">>,
              values |-> migrateValues(st.values)])

loadStateFromStorage(st) ==
    IF st.kind # "json"
    THEN FreshState
    ELSE ensureSingleActive(
             [participants |-> st.participants,
              phases |-> IF Len(st.phases) > 0 THEN st.phases ELSE <<"Phase 1">>,
              values |-> migrateValues(st.values)])

saveStateToStorage(s) ==
    [kind |-> "json",
     participants |-> s.participants,
     phases |-> s.phases,
     values |-> [k \in DOMAIN s.values |-> JsonString(s.values[k])]]

(***************************************************************************)
(* The advancement scan.                                                   *)
(***************************************************************************)
NullCell == [null |-> TRUE, row |-> 0 - 1, col |-> 0 - 1, addPhase |-> FALSE]

\* one pass of the for (;;) body of findNextActive, entered with (r, c)
RECURSIVE ScanFrom(_, _, _)
ScanFrom(s, r, c) ==
    LET rows == Len(s.participants)
        cols == Len(s.phases)
        wrap == r + 1 >= rows
        r1 == IF wrap THEN 0 ELSE r + 1
        c1 == IF wrap THEN c + 1 ELSE c
    IN  IF wrap /\ c1 >= cols
        THEN [null |-> FALSE, row |-> 0, col |-> cols, addPhase |-> TRUE]
        ELSE IF getCellState(s, r1, c1) # "dead"
             THEN [null |-> FALSE, row |-> r1, col |-> c1, addPhase |-> FALSE]
             ELSE ScanFrom(s, r1, c1)

\* variant: r += 2, the row after the start is passed over
findNextActiveSkipsRow(s, fromRow, fromCol) ==
    IF Len(s.participants) = 0 \/ Len(s.phases) = 0
    THEN NullCell
    ELSE ScanFrom(s, fromRow + 1, fromCol)

\* variant: leaving the last row restarts at row 0 of the same column
findNextActiveSameColumn(s, fromRow, fromCol) ==
    IF Len(s.participants) = 0 \/ Len(s.phases) = 0
    THEN NullCell
    ELSE IF fromRow + 1 >= Len(s.participants)
         THEN [null |-> FALSE, row |-> 0, col |-> fromCol, addPhase |-> FALSE]
         ELSE ScanFrom(s, fromRow, fromCol)

\* variant: a Dead cell is not skipped
findNextActiveNoSkip(s, fromRow, fromCol) ==
    LET rows == Len(s.participants)
        cols == Len(s.phases)
        wrap == fromRow + 1 >= rows
    IN  IF rows = 0 \/ cols = 0
        THEN NullCell
        ELSE IF wrap /\ fromCol + 1 >= cols
             THEN [null |-> FALSE, row |-> 0, col |-> cols, addPhase |-> TRUE]
             ELSE [null |-> FALSE,
                   row |-> IF wrap THEN 0 ELSE fromRow + 1,
                   col |-> IF wrap THEN fromCol + 1 ELSE fromCol,
                   addPhase |-> FALSE]

\* variant: leaving the last row signals a new phase whatever the column
findNextActiveAppendsEarly(s, fromRow, fromCol) ==
    IF Len(s.participants) = 0 \/ Len(s.phases) = 0
    THEN NullCell
    ELSE IF fromRow + 1 >= Len(s.participants)
         THEN [null |-> FALSE, row |-> 0, col |-> Len(s.phases), addPhase |-> TRUE]
         ELSE ScanFrom(s, fromRow, fromCol)

findNextActive(s, fromRow, fromCol) ==
    IF Len(s.participants) = 0 \/ Len(s.phases) = 0
    THEN NullCell
    ELSE ScanFrom(s, fromRow, fromCol)

(***************************************************************************)
(* Display-state queries.                                                  *)
(***************************************************************************)
isCharacterDeadInPreviousPhase(s, rowIndex, colIndex) ==
    \E c \in 0 .. colIndex - 1 : getCellState(s, rowIndex, c) = "dead"

isCharacterRevivedInAnyPhase(s, rowIndex) ==
    \E colIndex \in 0 .. Len(s.phases) - 1 :
        getCellState(s, rowIndex, colIndex) = "revived"

\* the result null of getRevivedPhaseColumn, the -1 of findIndex
NullColumn == 0 - 1

\* the first phase column where the row is Revived
getRevivedPhaseColumn(s, rowIndex) ==
    LET revived == {colIndex \in 0 .. Len(s.phases) - 1 :
                       getCellState(s, rowIndex, colIndex) = "revived"}
    IN  IF revived = {}
        THEN NullColumn
        ELSE CHOOSE col \in revived : \A other \in revived : col <= other

\* variant: a revival in any column turns every Dead cell of the row to Done
showAsDoneAnyColumn(s, rowIndex, colIndex) ==
    getRevivedPhaseColumn(s, rowIndex) # NullColumn

\* lines 845-850
showAsDone(s, rowIndex, colIndex) ==
    LET revivedCol == getRevivedPhaseColumn(s, rowIndex)
    IN  revivedCol # NullColumn /\ colIndex > revivedCol

\* the text or buttons a cell of the grid renders, lines 792-867
CellLabel(s, rowIndex, colIndex) ==
    LET cellState == getCellState(s, rowIndex, colIndex)
    IN  CASE cellState = "waiting" -> "Waiting"
          [] cellState = "active" -> "buttons"
          [] cellState = "done" -> "Done"
          [] cellState = "dead" ->
                 IF showAsDone(s, rowIndex, colIndex) THEN "Done" ELSE "Dead"
          [] cellState = "revived" -> "Revived"

(***************************************************************************)
(* The handlers, as functions from the state they close over to the state  *)
(* they hand to save; saved = FALSE is the early return.                   *)
(***************************************************************************)
\* variant: the appended phase is labelled with the old phase count
ActivateNextOldCountLabel(s, next, rowIndex, colIndex) ==
    LET nextCell == findNextActive(s, rowIndex, colIndex)
    IN  IF nextCell.null
        THEN next
        ELSE [next EXCEPT
                !.phases = IF nextCell.addPhase
                           THEN Append(s.phases, PhaseLabel(Len(s.phases)))
                           ELSE next.phases,
                !.values = SetValue(next.values,
                                    getCellKey(nextCell.row, nextCell.col), "active")]

\* variant: the append signal activates its cell without adding the phase
ActivateNextNoAppend(s, next, rowIndex, colIndex) ==
    LET nextCell == findNextActive(s, rowIndex, colIndex)
    IN  IF nextCell.null
        THEN next
        ELSE [next EXCEPT
                !.values = SetValue(next.values,
                                    getCellKey(nextCell.row, nextCell.col), "active")]

\* lines 649-658 (the same code at 670-679 and 691-700): activate the next cell
ActivateNext(s, next, rowIndex, colIndex) ==
    LET nextCell == findNextActive(s, rowIndex, colIndex)
    IN  IF nextCell.null
        THEN next
        ELSE [next EXCEPT
                !.phases = IF nextCell.addPhase
                           THEN Append(s.phases, PhaseLabel(Len(s.phases) + 1))
                           ELSE next.phases,
                !.values = SetValue(next.values,
                                    getCellKey(nextCell.row, nextCell.col), "active")]

\* variant: the cell is always resolved to Done
markDoneAlwaysDone(s, rowIndex, colIndex) ==
    IF getCellState(s, rowIndex, colIndex) # "active"
    THEN [saved |-> FALSE, state |-> s]
    ELSE [saved |-> TRUE,
          state |-> ActivateNext(s, [s EXCEPT !.values =
                                        SetValue(s.values, getCellKey(rowIndex, colIndex), "done")],
                                 rowIndex, colIndex)]

\* variant: activates the next cell but leaves the cell itself Active
markDoneKeepsActive(s, rowIndex, colIndex) ==
    IF getCellState(s, rowIndex, colIndex) # "active"
    THEN [saved |-> FALSE, state |-> s]
    ELSE [saved |-> TRUE, state |-> ActivateNext(s, s, rowIndex, colIndex)]

markDone(s, rowIndex, colIndex) ==
    LET key == getCellKey(rowIndex, colIndex)
        resolved == IF isCharacterDeadInPreviousPhase(s, rowIndex, colIndex)
                    THEN "dead" ELSE "done"
    IN  IF getCellState(s, rowIndex, colIndex) # "active"
        THEN [saved |-> FALSE, state |-> s]
        ELSE [saved |-> TRUE,
              state |-> ActivateNext(s, [s EXCEPT !.values = SetValue(s.values, key, resolved)],
                                     rowIndex, colIndex)]

\* variant: the cell is resolved the way markDone resolves it
markDeadLikeDone(s, rowIndex, colIndex) ==
    IF getCellState(s, rowIndex, colIndex) # "active"
    THEN [saved |-> FALSE, state |-> s]
    ELSE [saved |-> TRUE,
          state |-> ActivateNext(s, [s EXCEPT !.values =
                                        SetValue(s.values, getCellKey(rowIndex, colIndex),
                                                 IF isCharacterDeadInPreviousPhase(s, rowIndex, colIndex)
                                                 THEN "dead" ELSE "done")],
                                 rowIndex, colIndex)]

\* variant: the guard on the Active state is missing
markDeadUnguarded(s, rowIndex, colIndex) ==
    [saved |-> TRUE,
     state |-> ActivateNext(s, [s EXCEPT !.values =
                                   SetValue(s.values, getCellKey(rowIndex, colIndex), "dead")],
                            rowIndex, colIndex)]

markDead(s, rowIndex, colIndex) ==
    LET key == getCellKey(rowIndex, colIndex)
    IN  IF getCellState(s, rowIndex, colIndex) # "active"
        THEN [saved |-> FALSE, state |-> s]
        ELSE [saved |-> TRUE,
              state |-> ActivateNext(s, [s EXCEPT !.values = SetValue(s.values, key, "dead")],
                                     rowIndex, colIndex)]

\* variant: the cell becomes Revived and no next cell is activated
reviveNoAdvance(s, rowIndex, colIndex) ==
    IF getCellState(s, rowIndex, colIndex) # "active"
    THEN [saved |-> FALSE, state |-> s]
    ELSE [saved |-> TRUE,
          state |-> [s EXCEPT !.values =
                        SetValue(s.values, getCellKey(rowIndex, colIndex), "revived")]]

revive(s, rowIndex, colIndex) ==
    LET key == getCellKey(rowIndex, colIndex)
    IN  IF getCellState(s, rowIndex, colIndex) # "active"
        THEN [saved |-> FALSE, state |-> s]
        ELSE [saved |-> TRUE,
              state |-> ActivateNext(s, [s EXCEPT !.values = SetValue(s.values, key, "revived")],
                                     rowIndex, colIndex)]

\* variant: the participant is appended without ensureSingleActive
addParticipantNoRepair(s) ==
    [s EXCEPT !.participants = Append(s.participants, "")]

addParticipant(s) ==
    ensureSingleActive([s EXCEPT !.participants = Append(s.participants, "")])

setParticipantName(s, rowIndex, name) ==
    [s EXCEPT !.participants[rowIndex + 1] = name]

hasData(s) == Len(s.participants) > 0 \/ Len(s.phases) > 1

(***************************************************************************)
(* State machine of the mounted component.  lastOp observes the call that  *)
(* produced the current session: the mount effect or the handler that last *)
(* reached save, with the cell it was called on.                           *)
(***************************************************************************)
NoCell == 0 - 1

Op(name) == [op |-> name, row |-> NoCell, col |-> NoCell]

CellOp(name, rowIndex, colIndex) == [op |-> name, row |-> rowIndex, col |-> colIndex]

StoredValues == UNION {[D -> RawValues] : D \in SUBSET StoredKeys}

StorageContents ==
    {AbsentStorage, MalformedStorage}
        \cup {[kind |-> "json", participants |-> p, phases |-> ph, values |-> v] :
                 p \in StoredParticipantLists, ph \in StoredPhaseLists, v \in StoredValues}

NoArg == [fn |-> "none", state |-> FreshState, row |-> NoCell, col |-> NoCell]

NoRes == [fn |-> "none", state |-> FreshState, cell |-> NullCell]

Init ==
    /\ state = FreshState
    /\ storage \in StorageContents
    /\ mounted = FALSE
    /\ resetDialogOpen = FALSE
    /\ lastOp = Op("init")
    /\ fnArg = NoArg
    /\ fnRes = NoRes

\* variant: setState without the write to storage
SaveStateOnly(next) ==
    /\ state' = next
    /\ UNCHANGED storage

\* save (lines 608-611): setState(next); saveStateToStorage(next)
Save(next) ==
    /\ state' = next
    /\ storage' = saveStateToStorage(next)

\* the mount effect, lines 604-606
Mount ==
    /\ ~mounted
    /\ mounted' = TRUE
    /\ state' = loadStateFromStorage(storage)
    /\ lastOp' = Op("load")
    /\ UNCHANGED <<storage, resetDialogOpen, fnArg, fnRes>>

AddParticipant ==
    /\ mounted
    /\ (Len(state.participants) + 1) * Len(state.phases) <= MaxCells
    /\ Save(addParticipant(state))
    /\ lastOp' = Op("addParticipant")
    /\ UNCHANGED <<mounted, resetDialogOpen, fnArg, fnRes>>

SetParticipantName(rowIndex, name) ==
    /\ mounted
    /\ rowIndex < Len(state.participants)
    /\ Save(setParticipantName(state, rowIndex, name))
    /\ lastOp' = Op("setParticipantName")
    /\ UNCHANGED <<mounted, resetDialogOpen, fnArg, fnRes>>

\* a turn-ending handler called on (rowIndex, colIndex)
Transition(name, res, rowIndex, colIndex) ==
    /\ mounted
    /\ Len(res.state.participants) * Len(res.state.phases) <= MaxCells
    /\ IF res.saved
       THEN Save(res.state) /\ lastOp' = CellOp(name, rowIndex, colIndex)
       ELSE UNCHANGED <<state, storage, lastOp>>
    /\ UNCHANGED <<mounted, resetDialogOpen, fnArg, fnRes>>

MarkDone(rowIndex, colIndex) ==
    Transition("markDone", markDone(state, rowIndex, colIndex), rowIndex, colIndex)

MarkDead(rowIndex, colIndex) ==
    Transition("markDead", markDead(state, rowIndex, colIndex), rowIndex, colIndex)

Revive(rowIndex, colIndex) ==
    Transition("revive", revive(state, rowIndex, colIndex), rowIndex, colIndex)

\* the Reset button, line 729
ResetClick ==
    /\ mounted
    /\ resetDialogOpen' = (hasData(state) \/ resetDialogOpen)
    /\ UNCHANGED <<state, storage, mounted, lastOp, fnArg, fnRes>>

\* AlertDialogAction with onClick = doReset: doReset, then onOpenChange(false)
DialogClear ==
    /\ mounted
    /\ resetDialogOpen
    /\ Save(FreshState)
    /\ resetDialogOpen' = FALSE
    /\ lastOp' = Op("clear")
    /\ UNCHANGED <<mounted, fnArg, fnRes>>

\* variant: Cancel runs doReset like Clear
DialogCancelResets ==
    /\ mounted
    /\ resetDialogOpen
    /\ Save(FreshState)
    /\ resetDialogOpen' = FALSE
    /\ lastOp' = Op("clear")
    /\ UNCHANGED <<mounted, fnArg, fnRes>>

DialogCancel ==
    /\ mounted
    /\ resetDialogOpen
    /\ resetDialogOpen' = FALSE
    /\ UNCHANGED <<state, storage, mounted, lastOp, fnArg, fnRes>>

OverlayClick ==
    /\ mounted
    /\ resetDialogOpen
    /\ resetDialogOpen' = FALSE
    /\ UNCHANGED <<state, storage, mounted, lastOp, fnArg, fnRes>>

\* the cells the table renders (lines 771, 791): the handlers are closures of
\* the component and are only ever called from the buttons of these cells
GridKeys(s) ==
    {getCellKey(r, c) : r \in 0 .. Len(s.participants) - 1, c \in 0 .. Len(s.phases) - 1}

Next ==
    \/ Mount
    \/ AddParticipant
    \/ \E rowIndex \in 0 .. MaxRenameRow, name \in Names :
           SetParticipantName(rowIndex, name)
    \/ \E key \in GridKeys(state) : MarkDone(key[1], key[2])
    \/ \E key \in GridKeys(state) : MarkDead(key[1], key[2])
    \/ \E key \in GridKeys(state) : Revive(key[1], key[2])
    \/ ResetClick
    \/ DialogClear
    \/ DialogCancel
    \/ OverlayClick

Spec == Init /\ [][Next]_vars

(***************************************************************************)
(* The tracker driven through its rendered buttons only, from a fresh      *)
(* session.  An Active cell renders the Done button and either the Revive  *)
(* button or the Dead button; no other cell renders a button.              *)
(***************************************************************************)
\* variant: the Revive button is rendered whether or not the row was revived
ReviveOfferedAfterRevival(s, rowIndex, colIndex) ==
    isCharacterDeadInPreviousPhase(s, rowIndex, colIndex)

\* the condition of the ternary at lines 813-818
ReviveOffered(s, rowIndex, colIndex) ==
    /\ isCharacterDeadInPreviousPhase(s, rowIndex, colIndex)
    /\ ~isCharacterRevivedInAnyPhase(s, rowIndex)

ClickDone(rowIndex, colIndex) ==
    /\ getCellState(state, rowIndex, colIndex) = "active"
    /\ MarkDone(rowIndex, colIndex)

ClickDead(rowIndex, colIndex) ==
    /\ getCellState(state, rowIndex, colIndex) = "active"
    /\ ~ReviveOffered(state, rowIndex, colIndex)
    /\ MarkDead(rowIndex, colIndex)

ClickRevive(rowIndex, colIndex) ==
    /\ getCellState(state, rowIndex, colIndex) = "active"
    /\ ReviveOffered(state, rowIndex, colIndex)
    /\ Revive(rowIndex, colIndex)

InitUi ==
    /\ Init
    /\ storage \in {AbsentStorage, MalformedStorage}

NextUi ==
    \/ Mount
    \/ AddParticipant
    \/ \E rowIndex \in 0 .. MaxRenameRow, name \in Names :
           SetParticipantName(rowIndex, name)
    \/ \E key \in GridKeys(state) : ClickDone(key[1], key[2])
    \/ \E key \in GridKeys(state) : ClickDead(key[1], key[2])
    \/ \E key \in GridKeys(state) : ClickRevive(key[1], key[2])
    \/ ResetClick
    \/ DialogClear
    \/ DialogCancel
    \/ OverlayClick

SpecUi == InitUi /\ [][NextUi]_vars

(***************************************************************************)
(* Harness for the pure functions: an argument is drawn, the function is   *)
(* applied once, the result is kept beside the argument.                   *)
(***************************************************************************)
PureParticipantLists == {<<>>, <<"">>, <<"", "">>}
PurePhaseLists == {<<>>, <<"Phase 1">>, <<"Phase 1", "Phase 2">>}
PureCellStates == {"waiting", "active", "done", "dead"}
PureKeys == {<<0, 0>>, <<1, 0>>, <<0, 1>>, <<1, 1>>}
PureValues == UNION {[D -> PureCellStates] : D \in SUBSET PureKeys}
PureStates ==
    {[participants |-> p, phases |-> ph, values |-> v] :
        p \in PureParticipantLists, ph \in PurePhaseLists, v \in PureValues}

EnsureArgs ==
    {[fn |-> "ensureSingleActive", state |-> s, row |-> NoCell, col |-> NoCell] :
        s \in PureStates}

FindArgs ==
    {[fn |-> "findNextActive", state |-> s, row |-> r, col |-> c] :
        s \in PureStates, r \in 0 .. 2, c \in 0 .. 2}

InitFn ==
    /\ state = FreshState
    /\ storage = AbsentStorage
    /\ mounted = FALSE
    /\ resetDialogOpen = FALSE
    /\ lastOp = Op("init")
    /\ fnArg \in EnsureArgs \cup FindArgs
    /\ fnRes = NoRes

CallEnsureSingleActive ==
    /\ fnArg.fn = "ensureSingleActive"
    /\ fnRes.fn = "none"
    /\ fnRes' = [fn |-> "ensureSingleActive",
                 state |-> ensureSingleActive(fnArg.state),
                 cell |-> NullCell]
    /\ UNCHANGED <<state, storage, mounted, resetDialogOpen, lastOp, fnArg>>

CallFindNextActive ==
    /\ fnArg.fn = "findNextActive"
    /\ fnRes.fn = "none"
    /\ fnRes' = [fn |-> "findNextActive",
                 state |-> fnArg.state,
                 cell |-> findNextActive(fnArg.state, fnArg.row, fnArg.col)]
    /\ UNCHANGED <<state, storage, mounted, resetDialogOpen, lastOp, fnArg>>

NextFn == CallEnsureSingleActive \/ CallFindNextActive

SpecFn == InitFn /\ [][NextFn]_vars

(***************************************************************************)
(* findNextActive run one iteration at a time.  fnRes.fn = "loop" while    *)
(* the for (;;) loop is running, with (r, c) in fnRes.cell; the return     *)
(* value is in fnRes.cell once fnRes.fn = "findNextActive".  The loop is   *)
(* straight-line code inside one handler call, so it keeps taking steps    *)
(* until it returns: weak fairness of its steps.                           *)
(***************************************************************************)
InitLoop ==
    /\ state = FreshState
    /\ storage = AbsentStorage
    /\ mounted = FALSE
    /\ resetDialogOpen = FALSE
    /\ lastOp = Op("init")
    /\ fnArg \in FindArgs
    /\ fnRes = NoRes

Returned(s, cell) == [fn |-> "findNextActive", state |-> s, cell |-> cell]

Looping(s, r, c) ==
    [fn |-> "loop", state |-> s,
     cell |-> [null |-> FALSE, row |-> r, col |-> c, addPhase |-> FALSE]]

\* lines 537-541: the early return, or r = fromRow and c = fromCol
LoopEnter ==
    /\ fnRes.fn = "none"
    /\ fnRes' = IF Len(fnArg.state.participants) = 0 \/ Len(fnArg.state.phases) = 0
                THEN Returned(fnArg.state, NullCell)
                ELSE Looping(fnArg.state, fnArg.row, fnArg.col)
    /\ UNCHANGED <<state, storage, mounted, resetDialogOpen, lastOp, fnArg>>

\* variant: r wraps to row 0 without c += 1
LoopStepSameColumn ==
    /\ fnRes.fn = "loop"
    /\ LET s == fnRes.state
           rows == Len(s.participants)
           r == IF fnRes.cell.row + 1 >= rows THEN 0 ELSE fnRes.cell.row + 1
           c == fnRes.cell.col
       IN  fnRes' = IF getCellState(s, r, c) # "dead"
                    THEN Returned(s, [null |-> FALSE, row |-> r, col |-> c,
                                      addPhase |-> FALSE])
                    ELSE Looping(s, r, c)
    /\ UNCHANGED <<state, storage, mounted, resetDialogOpen, lastOp, fnArg>>

\* one iteration of the loop body, lines 543-552
LoopStep ==
    /\ fnRes.fn = "loop"
    /\ LET s == fnRes.state
           rows == Len(s.participants)
           cols == Len(s.phases)
           wrap == fnRes.cell.row + 1 >= rows
           r == IF wrap THEN 0 ELSE fnRes.cell.row + 1
           c == IF wrap THEN fnRes.cell.col + 1 ELSE fnRes.cell.col
       IN  fnRes' = IF wrap /\ c >= cols
                    THEN Returned(s, [null |-> FALSE, row |-> 0, col |-> cols,
                                      addPhase |-> TRUE])
                    ELSE IF getCellState(s, r, c) # "dead"
                         THEN Returned(s, [null |-> FALSE, row |-> r, col |-> c,
                                           addPhase |-> FALSE])
                         ELSE Looping(s, r, c)
    /\ UNCHANGED <<state, storage, mounted, resetDialogOpen, lastOp, fnArg>>

NextLoop == LoopEnter \/ LoopStep

SpecLoop == InitLoop /\ [][NextLoop]_vars /\ WF_vars(NextLoop)

(***************************************************************************)
(* Properties.                                                             *)
(***************************************************************************)
\* the cells of the grid, one row and one column beyond it, and every stored key
ArgKeys(s) ==
    {getCellKey(r, c) : r \in 0 .. Len(s.participants), c \in 0 .. Len(s.phases)}
        \cup DOMAIN s.values

StoredActive(st) ==
    {k \in DOMAIN st.values : st.values[k] = JsonString("active")}

\* C1: in every state reached from the load by addParticipant,
\* setParticipantName, markDone, markDead, revive and reset, at most one
\* cell holds Active.
C1_AtMostOneActive == Cardinality(ActiveKeys(state)) <= 1

\* a turn was ended in a session restored from a storage holding two Active cells
C1_Witness ==
    /\ lastOp.op = "markDone"
    /\ Len(state.phases) = 2
    /\ Cardinality(ActiveKeys(state)) = 1
    /\ \E k \in DOMAIN state.values : state.values[k] = "done" /\ k # <<lastOp.row, lastOp.col>>

\* C2: the state returned by loadStateFromStorage has exactly one Active
\* cell, or none and then the grid has no participant.
C2_LoadRepairsActive ==
    lastOp.op = "load" =>
        \/ Cardinality(ActiveKeys(state)) = 1
        \/ Cardinality(ActiveKeys(state)) = 0 /\ Len(state.participants) = 0

\* loaded from a storage with participants and two Active cells
C2_Witness ==
    /\ lastOp.op = "load"
    /\ storage.kind = "json"
    /\ Cardinality(StoredActive(storage)) = 2
    /\ Len(state.participants) > 0
    /\ ActiveKeys(state) = {<<0, 0>>}

\* C3: ensureSingleActive returns its input when exactly one cell is Active;
\* otherwise every Active cell becomes Done, then cell (0,0) becomes Active
\* if there is a participant and a phase, and nothing else changes.
C3_EnsureSingleActive ==
    fnRes.fn = "ensureSingleActive" =>
        LET s == fnArg.state
            out == fnRes.state
            promote == Len(s.participants) >= 1 /\ Len(s.phases) >= 1
        IN  IF Cardinality({k \in DOMAIN s.values : s.values[k] = "active"}) = 1
            THEN out = s
            ELSE /\ out.participants = s.participants
                 /\ out.phases = s.phases
                 /\ DOMAIN out.values =
                        DOMAIN s.values \cup (IF promote THEN {<<0, 0>>} ELSE {})
                 /\ \A k \in DOMAIN out.values :
                        out.values[k] =
                            IF promote /\ k = <<0, 0>> THEN "active"
                            ELSE IF s.values[k] = "active" THEN "done"
                            ELSE s.values[k]

\* two Active cells, neither at (0,0), which held Dead: both demoted, (0,0) promoted
C3_Witness ==
    /\ fnRes.fn = "ensureSingleActive"
    /\ Len(fnArg.state.participants) = 2
    /\ Len(fnArg.state.phases) = 2
    /\ DOMAIN fnArg.state.values = PureKeys
    /\ fnArg.state.values[<<0, 0>>] = "dead"
    /\ fnArg.state.values[<<1, 0>>] = "active"
    /\ fnArg.state.values[<<1, 1>>] = "active"
    /\ fnRes.state.values[<<0, 0>>] = "active"
    /\ fnRes.state.values[<<1, 0>>] = "done"

\* C4: called on a cell that is not Active (an absent key counts as Waiting),
\* markDone, markDead and revive return before save: the session is the one
\* they were called with and nothing is written to storage.
C4_NoOpOnInactive ==
    \A k \in ArgKeys(state) :
        getCellState(state, k[1], k[2]) # "active" =>
            /\ markDone(state, k[1], k[2]) = [saved |-> FALSE, state |-> state]
            /\ markDead(state, k[1], k[2]) = [saved |-> FALSE, state |-> state]
            /\ revive(state, k[1], k[2]) = [saved |-> FALSE, state |-> state]

\* a grid with an Active cell, a resolved cell and a cell with no stored key
C4_Witness ==
    /\ lastOp.op = "markDead"
    /\ ActiveKeys(state) # {}
    /\ \E k \in GridKeys(state) : k \in DOMAIN state.values /\ state.values[k] = "dead"
    /\ \E k \in GridKeys(state) : k \notin DOMAIN state.values
    /\ storage = saveStateToStorage(state)

\* a step of one of the three turn-ending handlers that reached save on
\* cell k
TurnEnd(k) ==
    /\ lastOp'.row = k[1]
    /\ lastOp'.col = k[2]
    /\ MarkDone(k[1], k[2]) \/ MarkDead(k[1], k[2]) \/ Revive(k[1], k[2])

IsActive(s, k) == getCellState(s, k[1], k[2]) = "active"

\* the stored entry of key k, "absent" when there is none
Entry(s, k) == IF k \in DOMAIN s.values THEN s.values[k] ELSE "absent"

\* the cells of the grid after k in turn order: a later row of the same
\* column, or any row of a later column
After(s, k) ==
    {j \in GridKeys(s) : j[2] > k[2] \/ (j[2] = k[2] /\ j[1] > k[1])}

\* C5: markDone on an Active cell (row, col) sets it to Dead if some cell
\* (row, c) with c < col is Dead, and to Done otherwise.
C5_MarkDoneResolves ==
    [][\A k \in GridKeys(state) :
           (IsActive(state, k) /\ MarkDone(k[1], k[2])) =>
               Entry(state', k) =
                   IF \E c \in 0 .. k[2] - 1 : Entry(state, <<k[1], c>>) = "dead"
                   THEN "dead" ELSE "done"]_vars

\* markDone stored Dead on a cell whose row has a Dead cell in an earlier column
C5_Witness ==
    /\ lastOp.op = "markDone"
    /\ lastOp.col = 1
    /\ Entry(state, <<lastOp.row, 1>>) = "dead"
    /\ Entry(state, <<lastOp.row, 0>>) = "dead"

\* C6: markDead on an Active cell stores Dead on it, whatever the other
\* cells of the row hold.
C6_MarkDeadStoresDead ==
    [][\A k \in GridKeys(state) :
           (IsActive(state, k) /\ MarkDead(k[1], k[2])) => Entry(state', k) = "dead"]_vars

\* markDead on a cell whose row already has a Revived cell
C6_Witness ==
    /\ lastOp.op = "markDead"
    /\ lastOp.col = 1
    /\ Entry(state, <<lastOp.row, 1>>) = "dead"
    /\ Entry(state, <<lastOp.row, 0>>) = "revived"

\* C7: after markDone, markDead or revive on the Active cell (r, c), that
\* cell is no longer Active, the cell findNextActive(state, r, c) selects is
\* Active, and no other cell changes.
C7_AdvanceFrame ==
    [][\A k \in GridKeys(state) :
           (IsActive(state, k) /\ TurnEnd(k)) =>
               LET nextCell == findNextActive(state, k[1], k[2])
                   nextKey == <<nextCell.row, nextCell.col>>
               IN  /\ ~IsActive(state', k)
                   /\ ~nextCell.null => IsActive(state', nextKey)
                   /\ \A j \in (DOMAIN state.values) \cup (DOMAIN state'.values) :
                          (j # k /\ (nextCell.null \/ j # nextKey)) =>
                              Entry(state', j) = Entry(state, j)]_vars

\* revive ended a turn: the cell is Revived and the next cell is the Active one
C7_Witness ==
    /\ lastOp.op = "revive"
    /\ Entry(state, <<lastOp.row, lastOp.col>>) = "revived"
    /\ Cardinality(ActiveKeys(state)) = 1
    /\ \E j \in DOMAIN state.values : state.values[j] = "dead"

\* C8: on a grid with a participant and a phase and a start inside it,
\* findNextActive returns the first cell after the start, in the order next
\* row of the same column then row 0 of the next column, that is not Dead;
\* it returns {row 0, col = number of phases, addPhase} exactly when there is
\* no such cell.
C8_FindNextActive ==
    (/\ fnRes.fn = "findNextActive"
     /\ <<fnArg.row, fnArg.col>> \in GridKeys(fnArg.state)) =>
        LET s == fnArg.state
            rows == Len(s.participants)
            Ord(k) == k[2] * rows + k[1]
            eligible == {k \in GridKeys(s) :
                            /\ Ord(k) > Ord(<<fnArg.row, fnArg.col>>)
                            /\ Entry(s, k) # "dead"}
        IN  IF eligible = {}
            THEN fnRes.cell =
                     [null |-> FALSE, row |-> 0, col |-> Len(s.phases), addPhase |-> TRUE]
            ELSE \E k \in eligible :
                     /\ \A j \in eligible : Ord(k) <= Ord(j)
                     /\ fnRes.cell =
                            [null |-> FALSE, row |-> k[1], col |-> k[2], addPhase |-> FALSE]

\* from (0,0) on a 2 x 2 grid with (1,0) and (0,1) Dead the scan returns (1,1)
C8_Witness ==
    /\ fnRes.fn = "findNextActive"
    /\ fnArg.row = 0
    /\ fnArg.col = 0
    /\ Len(fnArg.state.participants) = 2
    /\ Len(fnArg.state.phases) = 2
    /\ Entry(fnArg.state, <<1, 0>>) = "dead"
    /\ Entry(fnArg.state, <<0, 1>>) = "dead"
    /\ fnRes.cell = [null |-> FALSE, row |-> 1, col |-> 1, addPhase |-> FALSE]

\* C9 as claimed: in any session state, a turn-ending transition that finds
\* every remaining cell Dead, or none, appends a phase labelled Phase n+1 and
\* makes (0, n) the Active cell; and no cell that was Dead before the
\* transition is made Active by it.
C9_AsClaimed ==
    [][\A k \in GridKeys(state) :
           (IsActive(state, k) /\ TurnEnd(k)) =>
               LET n == Len(state.phases)
               IN  /\ (\A j \in After(state, k) : Entry(state, j) = "dead") =>
                          /\ state'.phases = Append(state.phases, PhaseLabel(n + 1))
                          /\ ActiveKeys(state') = {<<0, n>>}
                   /\ \A j \in DOMAIN state.values :
                          state.values[j] = "dead" => ~IsActive(state', j)]_vars

\* C9 amended: in any session state, a turn-ending transition that finds
\* every remaining cell Dead, or none, appends a phase labelled Phase n+1 and
\* makes (0, n) the Active cell; and no cell of the grid that was Dead before
\* the transition is made Active by it (a Dead value stored under the key of
\* the appended column's row 0 is overwritten with Active).
C9_Amended ==
    [][\A k \in GridKeys(state) :
           (IsActive(state, k) /\ TurnEnd(k)) =>
               LET n == Len(state.phases)
               IN  /\ (\A j \in After(state, k) : Entry(state, j) = "dead") =>
                          /\ state'.phases = Append(state.phases, PhaseLabel(n + 1))
                          /\ ActiveKeys(state') = {<<0, n>>}
                   /\ \A j \in GridKeys(state) :
                          Entry(state, j) = "dead" => ~IsActive(state', j)]_vars

\* markDone(0,0) skipped the Dead cell (1,0), Phase 2 was appended, (0,1) is Active
C9_Witness ==
    /\ lastOp = CellOp("markDone", 0, 0)
    /\ Len(state.participants) = 2
    /\ Entry(state, <<1, 0>>) = "dead"
    /\ state.phases = <<"Phase 1", "Phase 2">>
    /\ ActiveKeys(state) = {<<0, 1>>}

\* the session of the scenario and the two sessions it passes through
ScenarioStart ==
    [participants |-> <<"A", "B">>, phases |-> <<"Phase 1">>,
     values |-> (<<0, 0>> :> "active")]

ScenarioMiddle ==
    [participants |-> <<"A", "B">>, phases |-> <<"Phase 1">>,
     values |-> (<<0, 0>> :> "done") @@ (<<1, 0>> :> "active")]

ScenarioEnd ==
    [participants |-> <<"A", "B">>, phases |-> <<"Phase 1", "Phase 2">>,
     values |-> (<<0, 0>> :> "done") @@ (<<1, 0>> :> "done") @@ (<<0, 1>> :> "active")]

\* C10: from participants [A, B], phases [Phase 1] and (0,0) Active,
\* markDone(0,0) gives (0,0) Done and (1,0) Active; then markDone(1,0) gives
\* (1,0) Done, phases [Phase 1, Phase 2] and (0,1) Active, and no other cell
\* is Active in either session.
C10_Scenario ==
    [][/\ (state = ScenarioStart /\ MarkDone(0, 0)) => state' = ScenarioMiddle
       /\ (state = ScenarioMiddle /\ MarkDone(1, 0)) => state' = ScenarioEnd]_vars

\* the end of the scenario, reached by markDone(1,0)
C10_Witness ==
    /\ state = ScenarioEnd
    /\ lastOp = CellOp("markDone", 1, 0)
    /\ storage = saveStateToStorage(ScenarioEnd)

\* C11: for every session the tracker reaches by the load and the user
\* operations, saveStateToStorage followed by loadStateFromStorage returns
\* the same participants, phases and cell states.
C11_RoundTrip ==
    LET reloaded == loadStateFromStorage(saveStateToStorage(state))
    IN  /\ reloaded.participants = state.participants
        /\ reloaded.phases = state.phases
        /\ reloaded.values = state.values

\* a session with a named participant, an appended phase and the four
\* resolved and unresolved states stored
C11_Witness ==
    /\ lastOp.op = "revive"
    /\ state.participants[1] = "A"
    /\ Len(state.phases) > 2
    /\ {state.values[k] : k \in DOMAIN state.values} = {"dead", "revived", "active"}

\* C12: when the storage entry is absent or cannot be parsed,
\* loadStateFromStorage returns the fresh session: no participants, phases
\* ["Phase 1"], no cell states.
C12_LoadFailsSoft ==
    (lastOp.op = "load" /\ storage.kind # "json") =>
        /\ state.participants = <<>>
        /\ state.phases = <<"Phase 1">>
        /\ DOMAIN state.values = {}

\* the mount effect ran on an unparsable storage entry
C12_Witness ==
    /\ lastOp.op = "load"
    /\ mounted
    /\ storage = MalformedStorage
    /\ state = FreshState

\* C13: after loadStateFromStorage every stored cell value is one of the
\* five cell states; every persisted key is kept; a persisted value of the
\* enumeration is kept and any other value becomes Waiting, up to the
\* single-active repair (an Active value made Done, cell (0,0) made Active).
C13_LoadMigrates ==
    (lastOp.op = "load" /\ storage.kind = "json") =>
        /\ \A k \in DOMAIN state.values : state.values[k] \in PHASE_CELL_STATES
        /\ \A k \in DOMAIN storage.values :
               LET v == storage.values[k]
                   kept == IF v.type = "string" /\ v.text \in PHASE_CELL_STATES
                           THEN v.text ELSE "waiting"
               IN  /\ k \in DOMAIN state.values
                   /\ \/ state.values[k] = kept
                      \/ kept = "active" /\ state.values[k] = "done"
                      \/ k = <<0, 0>> /\ state.values[k] = "active"

\* loaded from a storage holding free text, a number and a Revived value
C13_Witness ==
    /\ lastOp.op = "load"
    /\ storage.kind = "json"
    /\ \E k \in DOMAIN storage.values :
           storage.values[k] = JsonString("17") /\ state.values[k] = "waiting"
    /\ \E k \in DOMAIN storage.values :
           storage.values[k].type = "number" /\ state.values[k] = "waiting"
    /\ \E k \in DOMAIN storage.values :
           storage.values[k] = JsonString("revived") /\ state.values[k] = "revived"

\* C14: when only the rendered buttons are used from a fresh session, every
\* row has at most one Revived cell, every Revived cell (r, c) has a Dead
\* cell (r, c') with c' < c, and the Revive button is rendered on the Active
\* cell exactly when its row has a Dead cell in an earlier column and no
\* Revived cell in any column.
C14_ReviveOnce ==
    LET Holds(k, v) == k \in DOMAIN state.values /\ state.values[k] = v
        RowKeys(r, v) == {k \in DOMAIN state.values : k[1] = r /\ state.values[k] = v}
    IN  /\ \A k \in DOMAIN state.values : Cardinality(RowKeys(k[1], "revived")) <= 1
        /\ \A k \in DOMAIN state.values :
               Holds(k, "revived") => \E j \in RowKeys(k[1], "dead") : j[2] < k[2]
        /\ \A k \in GridKeys(state) :
               Holds(k, "active") =>
                   (ReviveOffered(state, k[1], k[2]) <=>
                        /\ \E j \in RowKeys(k[1], "dead") : j[2] < k[2]
                        /\ RowKeys(k[1], "revived") = {})

\* a row that died, was revived and has its turn again: the Dead button is
\* back although an earlier cell of the row is Dead
C14_Witness ==
    /\ lastOp.op = "revive"
    /\ \E k \in GridKeys(state) :
           /\ getCellState(state, k[1], k[2]) = "active"
           /\ isCharacterDeadInPreviousPhase(state, k[1], k[2])
           /\ getCellState(state, k[1], lastOp.col) = "revived"
           /\ k[1] = lastOp.row
           /\ ~ReviveOffered(state, k[1], k[2])

\* C15: after addParticipant, setParticipantName, a successful markDone,
\* markDead or revive, and a confirmed reset, the session in storage has the
\* participants, phases and cell states of the session in memory.
C15_StorageFollowsState ==
    lastOp.op \in {"addParticipant", "setParticipantName", "markDone", "markDead",
                   "revive", "clear"} =>
        /\ storage.kind = "json"
        /\ storage.participants = state.participants
        /\ storage.phases = state.phases
        /\ DOMAIN storage.values = DOMAIN state.values
        /\ \A k \in DOMAIN state.values :
               storage.values[k] = [type |-> "string", text |-> state.values[k]]

\* a participant of a session restored from storage was renamed
C15_Witness ==
    /\ lastOp.op = "setParticipantName"
    /\ state.participants = <<"A", "B">>
    /\ storage.participants = <<"A", "B">>
    /\ Cardinality(DOMAIN storage.values) = 3

\* C16: the session becomes the fresh one only by Clear while the dialog is
\* open; Cancel and a click on the overlay close the dialog and leave the
\* session and the storage as they are; the dialog opens only when there is
\* a participant or more than one phase.
C16_ResetOnlyByClear ==
    [][/\ (state # FreshState /\ state' = FreshState) => (resetDialogOpen /\ DialogClear)
       /\ (DialogCancel \/ OverlayClick) =>
              /\ resetDialogOpen
              /\ ~resetDialogOpen'
              /\ state' = state
              /\ storage' = storage
       /\ (~resetDialogOpen /\ resetDialogOpen') =>
              (Len(state.participants) > 0 \/ Len(state.phases) > 1)]_vars

\* Clear was clicked: the dialog is closed, session and storage are fresh
C16_Witness ==
    /\ lastOp.op = "clear"
    /\ ~resetDialogOpen
    /\ state = FreshState
    /\ storage = saveStateToStorage(FreshState)

\* C17: a cell of the grid that stores Dead at column c renders "Done"
\* exactly when its row has a Revived cell and the first Revived column of
\* the row is less than c; otherwise it renders "Dead".
C17_DeadCellLabel ==
    \A k \in GridKeys(state) :
        Entry(state, k) = "dead" =>
            LET revivedCols == {j[2] : j \in {i \in DOMAIN state.values :
                                   i[1] = k[1] /\ state.values[i] = "revived"}}
                first == CHOOSE c \in revivedCols : \A d \in revivedCols : c <= d
                label == CellLabel(state, k[1], k[2])
            IN  IF revivedCols # {} /\ first < k[2]
                THEN label = "Done"
                ELSE label = "Dead"

\* a row with a Dead cell before its Revived cell and a Dead cell after it
C17_Witness ==
    \E r \in 0 .. Len(state.participants) - 1 :
        \E c \in 1 .. Len(state.phases) - 2 :
            /\ getCellState(state, r, c) = "revived"
            /\ getCellState(state, r, c - 1) = "dead"
            /\ getCellState(state, r, c + 1) = "dead"
            /\ CellLabel(state, r, c - 1) = "Dead"
            /\ CellLabel(state, r, c + 1) = "Done"

\* cell j comes before cell k in turn order: an earlier column, or the same
\* column and an earlier row
Before(j, k) == j[2] < k[2] \/ (j[2] = k[2] /\ j[1] < k[1])

\* C18: after a successful markDone, markDead or revive on the Active cell
\* (r, c) there is an Active cell, and it is (r', c') with c' > c, or c' = c
\* and r' > r; and no step moves the Active cell to an earlier column or to
\* an earlier row of the same column.
C18_TurnOrderForward ==
    [][/\ \A k \in GridKeys(state) :
              (IsActive(state, k) /\ TurnEnd(k)) =>
                  /\ ActiveKeys(state') # {}
                  /\ \A j \in ActiveKeys(state') : Before(k, j)
       /\ \A k \in ActiveKeys(state) : \A j \in ActiveKeys(state') : ~Before(j, k)]_vars

\* markDead on the last row moved the turn to row 0 of the next column,
\* past a Waiting cell of an earlier row that was added later
C18_Witness ==
    /\ lastOp.op = "markDead"
    /\ lastOp.row = 1
    /\ lastOp.col = 0
    /\ Len(state.participants) = 2
    /\ ActiveKeys(state) = {<<0, 1>>}
    /\ Entry(state, <<1, 0>>) = "dead"

\* C19: for every session and every start position findNextActive returns:
\* null when there is no participant or no phase, and otherwise a cell that
\* is not Dead or the signal to append a phase, also when every cell of the
\* grid is Dead.
C19_LoopTerminates ==
    <>(/\ fnRes.fn = "findNextActive"
       /\ fnRes.cell = findNextActive(fnArg.state, fnArg.row, fnArg.col)
       /\ IF Len(fnArg.state.participants) = 0 \/ Len(fnArg.state.phases) = 0
          THEN fnRes.cell.null
          ELSE /\ ~fnRes.cell.null
               /\ \/ fnRes.cell.addPhase
                  \/ getCellState(fnArg.state, fnRes.cell.row, fnRes.cell.col) # "dead")

\* the loop returned the append signal from (0,0) on a 2 x 2 grid whose
\* four cells are Dead
C19_Witness ==
    /\ fnRes.fn = "findNextActive"
    /\ fnArg.row = 0
    /\ fnArg.col = 0
    /\ Len(fnArg.state.participants) = 2
    /\ Len(fnArg.state.phases) = 2
    /\ \A k \in PureKeys : Entry(fnArg.state, k) = "dead"
    /\ fnRes.cell.addPhase

\* C20: addParticipant appends one participant with an empty name at the
\* end of the list and leaves the phases as they are; when exactly one cell
\* is Active no cell state changes, and when it adds the first participant
\* to a session with no Active cell, cell (0,0) becomes Active.
C20_AddParticipantFrame ==
    [][AddParticipant =>
           /\ state'.participants = state.participants \o <<"">>
           /\ state'.phases = state.phases
           /\ Cardinality(ActiveKeys(state)) = 1 => state'.values = state.values
           /\ (Len(state.participants) = 0 /\ ActiveKeys(state) = {}) =>
                  /\ Entry(state', <<0, 0>>) = "active"
                  /\ \A k \in DOMAIN state.values :
                         k # <<0, 0>> => Entry(state', k) = state.values[k]]_vars

\* the first participant was added to a restored session that had none and
\* no Active cell, but a stored Dead value
C20_Witness ==
    /\ lastOp.op = "addParticipant"
    /\ state.participants = <<"">>
    /\ ActiveKeys(state) = {<<0, 0>>}
    /\ Entry(state, <<0, 1>>) = "dead"
    /\ storage = saveStateToStorage(state)

\* C21: from a fresh session, in every state reached through the rendered
\* controls exactly one cell is Active if there is a participant and none
\* otherwise; the Active cell is a cell of the grid, and markDone on it
\* reaches save.
C21_OneActiveInGrid ==
    /\ IF Len(state.participants) >= 1
       THEN Cardinality(ActiveKeys(state)) = 1
       ELSE ActiveKeys(state) = {}
    /\ \A k \in ActiveKeys(state) :
           /\ k[1] < Len(state.participants)
           /\ k[2] < Len(state.phases)
           /\ CellLabel(state, k[1], k[2]) = "buttons"
           /\ markDone(state, k[1], k[2]).saved

\* three participants were added and the first one ended the turn
C21_Witness ==
    /\ lastOp = CellOp("markDone", 0, 0)
    /\ Len(state.participants) = 3
    /\ state.phases = <<"Phase 1">>
    /\ ActiveKeys(state) = {<<1, 0>>}
    /\ DOMAIN state.values = {<<0, 0>>, <<1, 0>>}

\* C22: from a fresh session, in every reachable state every cell after the
\* Active cell in turn order is Waiting, so the scan from the Active cell
\* stops at the very next position: the next row of the column, or the
\* append signal after the last row, whatever the row held in earlier phases.
C22_LaterCellsWaiting ==
    \A k \in ActiveKeys(state) :
        /\ \A j \in GridKeys(state) \cup DOMAIN state.values :
               Before(k, j) => getCellState(state, j[1], j[2]) = "waiting"
        /\ findNextActive(state, k[1], k[2]) =
               IF k[1] + 1 < Len(state.participants)
               THEN [null |-> FALSE, row |-> k[1] + 1, col |-> k[2], addPhase |-> FALSE]
               ELSE [null |-> FALSE, row |-> 0, col |-> Len(state.phases),
                     addPhase |-> TRUE]

\* the participant of row 1 died in the first phase and has the turn in the second
C22_Witness ==
    /\ Len(state.participants) = 2
    /\ Len(state.phases) = 2
    /\ Entry(state, <<1, 0>>) = "dead"
    /\ ActiveKeys(state) = {<<1, 1>>}
    /\ lastOp.row = 0
    /\ lastOp.col = 1

\* C23: from a fresh session, in every reachable state there is a phase and
\* the Active cell, when there is one, is in the last phase column.
C23_ActiveInLastColumn ==
    /\ Len(state.phases) >= 1
    /\ \A k \in ActiveKeys(state) : k[2] = Len(state.phases) - 1

\* two phases were appended; the Active cell is in the third column
C23_Witness ==
    /\ state.phases = <<"Phase 1", "Phase 2", "Phase 3">>
    /\ ActiveKeys(state) = {<<0, 2>>}
    /\ lastOp.op = "markDone"
    /\ lastOp.col = 1

\* C24: from a fresh session, in every reachable state no Done cell has a
\* Dead cell in an earlier column of its row.
C24_NoDoneAfterDead ==
    \A k \in DOMAIN state.values :
        state.values[k] = "done" =>
            ~\E j \in DOMAIN state.values :
                 j[1] = k[1] /\ j[2] < k[2] /\ state.values[j] = "dead"

\* markDone on a row that died and was revived: the cell is stored as Dead
C24_Witness ==
    /\ lastOp.op = "markDone"
    /\ lastOp.col = 2
    /\ Entry(state, <<lastOp.row, 0>>) = "dead"
    /\ Entry(state, <<lastOp.row, 1>>) = "revived"
    /\ Entry(state, <<lastOp.row, 2>>) = "dead"

\* C25 as claimed: in every state reached through the rendered controls, the
\* cell on which markDead was last performed renders "Dead".
C25_AsClaimed ==
    lastOp.op = "markDead" => CellLabel(state, lastOp.row, lastOp.col) = "Dead"

\* the participant died in the first phase, was revived in the second and
\* was killed again in the third: the cell stores Dead and renders "Done"
C25_Witness ==
    /\ lastOp = CellOp("markDead", 0, 2)
    /\ Entry(state, <<0, 0>>) = "dead"
    /\ Entry(state, <<0, 1>>) = "revived"
    /\ Entry(state, <<0, 2>>) = "dead"
    /\ CellLabel(state, 0, 2) = "Done"

\* C26: from a fresh session, whenever a step appends a phase, every cell of
\* the column that was last before the step, for every participant, is Done,
\* Dead or Revived after it.
C26_NoOnePassedOver ==
    [][Len(state'.phases) > Len(state.phases) =>
           \A r \in 0 .. Len(state'.participants) - 1 :
               Entry(state', <<r, Len(state.phases) - 1>>) \in {"done", "dead", "revived"}]_vars

\* a second participant joined during the first phase and had the turn
\* before Phase 2 was appended
C26_Witness ==
    /\ lastOp = CellOp("markDead", 1, 0)
    /\ state.participants = <<"A", "">>
    /\ state.phases = <<"Phase 1", "Phase 2">>
    /\ Entry(state, <<0, 0>>) = "done"
    /\ Entry(state, <<1, 0>>) = "dead"
    /\ ActiveKeys(state) = {<<0, 1>>}

====
